---- MODULE Spec2Model ----
(***************************************************************************)
(* FarmWise backend (backend/server.py): the persistence gateway over the  *)
(* four MongoDB collections, the request handlers that use it, and media   *)
(* ingestion into the upload directory.                                    *)
(*                                                                         *)
(* A stored document is a function from field names to values.  Every      *)
(* value has the same shape [k, s, t]: k is the Python type, s the text of *)
(* a plain string, t a tuple of numbers (the characters of an ISO-8601     *)
(* text, the parts of a datetime, the serial of a uuid).                   *)
(***************************************************************************)
EXTENDS Integers, Sequences, FiniteSets, TLC

\* ------------------------------------------------------------------ bounds
\* The number of requests of one behaviour that change the store.
MaxWrites == 3
\* The number of files one behaviour stores in the upload directory.
MaxUploads == 2
\* The number of requests one behaviour accepts into concurrent handling.
MaxTasks == 2

\* ------------------------------------------------------------ size ceilings
MaxImageBytes == 10 * 1024 * 1024
MaxAudioBytes == 20 * 1024 * 1024

\* ------------------------------------------------------------------ values
Str(x) == [k |-> "str", s |-> x, t |-> <<>>]
None == [k |-> "none", s |-> "", t |-> <<>>]
Dict(x) == [k |-> "dict", s |-> x, t |-> <<>>]
List(x) == [k |-> "list", s |-> x, t |-> <<>>]
DateTime(dt) == [k |-> "datetime", s |-> "", t |-> dt]
IntValue(n) == [k |-> "int", s |-> "", t |-> <<n>>]
IsoText(chars) == [k |-> "str", s |-> "iso", t |-> chars]
UuidStr(n) == [k |-> "str", s |-> "uuid", t |-> <<n>>]

\* The clock readings of the model: <<second, fraction>>, half a second
\* apart; a fraction of 0 is a reading whose microsecond part is zero.
Instants == {<<0, 0>>, <<0, 5>>}

\* Character codes of the ISO text.
PLUS == 43
DOT == 46
ZERO == 48

\* datetime.isoformat() of an aware UTC datetime: "...SS+00:00" when the
\* microsecond part is zero, "...SS.ffffff+00:00" otherwise.  The date and
\* hour prefix, equal for all readings, is left out, and the offset is its
\* first character.
isoformat(dt) ==
    <<ZERO + dt[1]>> \o (IF dt[2] = 0 THEN <<>> ELSE <<DOT, ZERO + dt[2]>>) \o <<PLUS>>

IsDigit(c) == c >= ZERO /\ c <= ZERO + 9

\* datetime.fromisoformat(): the datetime of a well-formed text; anything
\* else raises (CanParse is false).
CanParse(v) ==
    /\ v.k = "str"
    /\ v.s = "iso"
    /\ \/ Len(v.t) = 2 /\ IsDigit(v.t[1]) /\ v.t[2] = PLUS
       \/ Len(v.t) = 4 /\ IsDigit(v.t[1]) /\ v.t[2] = DOT /\ IsDigit(v.t[3]) /\ v.t[4] = PLUS

fromisoformat(v) ==
    IF Len(v.t) = 2 THEN DateTime(<<v.t[1] - ZERO, 0>>)
    ELSE DateTime(<<v.t[1] - ZERO, v.t[3] - ZERO>>)

\* Field names by suffix: str.endswith('_at') and str.endswith('_date').
EndsWithAt(key) == key \in {"created_at", "updated_at"}
EndsWithDate(key) == key \in {"planting_date"}

\* prepare_for_mongo: datetime values become ISO text; a nested dict is
\* processed the same way (a JSON map holds no datetime, so it is unchanged).
prepare_for_mongo(data) ==
    [key \in DOMAIN data |->
        IF data[key].k = "datetime" THEN IsoText(isoformat(data[key].t)) ELSE data[key]]

\* parse_from_mongo: `endswith('_at') or endswith('_date') and isinstance(str)`;
\* a value that does not parse is left as it is (bare except: pass).
parse_from_mongo(item) ==
    [key \in DOMAIN item |->
        IF (EndsWithAt(key) \/ (EndsWithDate(key) /\ item[key].k = "str")) /\ CanParse(item[key])
        THEN fromisoformat(item[key])
        ELSE item[key]]

\* ------------------------------------------------------------------ state
VARIABLES
    phase,       \* "boot" before the startup event, "serving" after it
    mongo_url,   \* the module-level MONGO_URL: TRUE when one is configured
    db,          \* the module-level handle: "none" or "handle"
    openai_client, \* the module-level client: "none" or "client"
    WEATHERAPI_KEY, \* the module-level weather key: TRUE when one is configured
    users,       \* db.users, in natural (insertion) order
    crops,       \* db.crops
    activities,  \* db.activities
    ai_advice,   \* db.ai_advice
    issued,      \* number of uuid4() values generated so far
    files,       \* the upload directory: file name -> content
    writes,      \* requests so far that changed the store
    req,         \* the last request handled
    resp,        \* its response
    dblog,       \* the gateway calls the last handler made, with their counts
    upcalls,     \* the upstream (language model / weather) calls it made
    inflight     \* the handlers suspended at an await, in order of acceptance

vars == <<phase, mongo_url, db, openai_client, WEATHERAPI_KEY, users, crops, activities, ai_advice, issued, files, writes, req, resp, dblog, upcalls, inflight>>
store == <<users, crops, activities, ai_advice>>

NoData == [x \in {} |-> None]

\* Mutant of uuid4: the default evaluated once, when the class is defined.
uuid4_evaluated_once == UuidStr(1)

\* str(uuid.uuid4()): a value no earlier call returned.
uuid4 == UuidStr(issued + 1)

\* ------------------------------------------------------- pydantic models
\* A field's declared type accepts a value (pydantic parses ISO text given
\* for a datetime field).
TypeOK(v, ty) ==
    CASE ty = "str" -> v.k = "str"
      [] ty = "optstr" -> v.k \in {"str", "none"}
      [] ty = "optint" -> v.k \in {"int", "none"}
      [] ty = "dict" -> v.k = "dict"
      [] ty = "list" -> v.k = "list"
      [] ty = "datetime" -> v.k = "datetime" \/ CanParse(v)
      [] ty = "optdatetime" -> v.k \in {"datetime", "none"} \/ CanParse(v)

Coerce(v, ty) ==
    IF ty \in {"datetime", "optdatetime"} /\ v.k = "str" THEN fromisoformat(v) ELSE v

\* Model(**d): every declared field is given with an accepted value or has a
\* default; keys that are not fields are ignored.
Validates(d, types, defaults) ==
    \A f \in DOMAIN types :
        IF f \in DOMAIN d THEN TypeOK(d[f], types[f]) ELSE f \in DOMAIN defaults

Construct(d, types, defaults) ==
    [f \in DOMAIN types |-> IF f \in DOMAIN d THEN Coerce(d[f], types[f]) ELSE defaults[f]]

UserTypes ==
    [id |-> "str", name |-> "str", phone |-> "optstr", location |-> "dict", crops |-> "list",
     farm_size |-> "optstr", irrigation_type |-> "optstr", created_at |-> "datetime"]

\* The defaults of User: uuid4() for id, now() for created_at.
UserDefaults(uuid, now) ==
    [id |-> uuid, phone |-> None, location |-> Dict("{}"), crops |-> List("[]"),
     farm_size |-> None, irrigation_type |-> None, created_at |-> DateTime(now)]

CropTypes ==
    [id |-> "str", user_id |-> "str", name |-> "str", image_url |-> "optstr",
     planting_date |-> "optdatetime", current_stage |-> "str", health_status |-> "str",
     last_activity |-> "optdatetime", created_at |-> "datetime"]

CropDefaults(uuid, now) ==
    [id |-> uuid, image_url |-> None, planting_date |-> None, current_stage |-> Str("planted"),
     health_status |-> Str("good"), last_activity |-> None, created_at |-> DateTime(now)]

ActivityTypes ==
    [id |-> "str", crop_id |-> "str", type |-> "str", description |-> "str",
     date |-> "datetime", quantity |-> "optstr", notes |-> "optstr", image_url |-> "optstr",
     created_at |-> "datetime"]

\* Both default factories of Activity run inside one constructor call and
\* read the same instant of the model's clock.
ActivityDefaults(uuid, now) ==
    [id |-> uuid, date |-> DateTime(now), quantity |-> None, notes |-> None,
     image_url |-> None, created_at |-> DateTime(now)]

ActivityCreateTypes ==
    [crop_id |-> "str", type |-> "str", description |-> "str", quantity |-> "optstr",
     notes |-> "optstr", image_url |-> "optstr"]
ActivityCreateDefaults == [quantity |-> None, notes |-> None, image_url |-> None]

AIAdviceTypes ==
    [id |-> "str", crop_id |-> "str", advice_text |-> "str", weather_data |-> "dict",
     created_at |-> "datetime"]
AIAdviceDefaults(uuid, now) ==
    [id |-> uuid, weather_data |-> Dict("{}"), created_at |-> DateTime(now)]

UserCreateTypes == [name |-> "str", phone |-> "optstr", location |-> "dict"]
UserCreateDefaults == [phone |-> None, location |-> Dict("{}")]

\* ------------------------------------------------------ persistence gateway
Matches(doc, key, v) == key \in DOMAIN doc /\ doc[key] = v

\* Index of the first document, in natural order, with doc[key] = v; 0 if none.
FirstMatch(coll, key, v) ==
    IF \E i \in 1..Len(coll) : Matches(coll[i], key, v)
    THEN CHOOSE i \in 1..Len(coll) :
            /\ Matches(coll[i], key, v)
            /\ \A j \in 1..(i - 1) : ~Matches(coll[j], key, v)
    ELSE 0

\* collection.insert_one(doc)
InsertOne(coll, doc) == Append(coll, doc)

\* collection.find_one({key: v}): <<>> stands for None.
FindOne(coll, key, v) ==
    IF FirstMatch(coll, key, v) = 0 THEN <<>> ELSE <<coll[FirstMatch(coll, key, v)]>>

\* collection.find({key: v})
Find(coll, key, v) == SelectSeq(coll, LAMBDA doc : Matches(doc, key, v))

\* The $set operator: the named fields are written, the others kept.
SetFields(doc, fields) ==
    [f \in DOMAIN doc \cup DOMAIN fields |-> IF f \in DOMAIN fields THEN fields[f] ELSE doc[f]]

\* Mutant of UpdateOne: upsert=True, a miss inserts the fields as a document.
UpdateOne_upsert(coll, key, v, fields) ==
    IF FirstMatch(coll, key, v) = 0 THEN Append(coll, SetFields([x \in {key} |-> v], fields))
    ELSE [coll EXCEPT ![FirstMatch(coll, key, v)] = SetFields(@, fields)]

\* collection.update_one({key: v}, {"$set": fields}) without upsert.
UpdateOne(coll, key, v, fields) ==
    IF FirstMatch(coll, key, v) = 0 THEN coll
    ELSE [coll EXCEPT ![FirstMatch(coll, key, v)] = SetFields(@, fields)]

MatchedCount(coll, key, v) == IF FirstMatch(coll, key, v) = 0 THEN 0 ELSE 1

\* collection.delete_one({key: v})
DeleteOne(coll, key, v) ==
    IF FirstMatch(coll, key, v) = 0 THEN coll
    ELSE SubSeq(coll, 1, FirstMatch(coll, key, v) - 1)
            \o SubSeq(coll, FirstMatch(coll, key, v) + 1, Len(coll))

\* collection.delete_many({key: v})
DeleteMany(coll, key, v) == SelectSeq(coll, LAMBDA doc : ~Matches(doc, key, v))

DeletedCount(coll, after) == Len(coll) - Len(after)

Call(op, coll, n) == [n |-> n, coll |-> coll, op |-> op]

\* ------------------------------------------------------------- responses
Response(status, body) == [status |-> status, body |-> body]
HTTPException(status) == Response(status, <<>>)
Request(op, id, data) == [data |-> data, id |-> id, op |-> op]

\* Mutant of check_database_availability: the check never raises.
check_database_availability_skipped == TRUE

\* check_database_availability: `if not db: raise HTTPException(503)`.
check_database_availability == db # "none"

\* What a handler does once the check has passed on an unset handle: the
\* attribute access db.<collection> raises, an unhandled error (HTTP 500).
HandleUsable == db = "handle"

\* ------------------------------------------------------------------ inputs
\* Path parameters: every id a stored document carries, and an id nothing
\* carries.
StoredIds(coll) == {coll[i]["id"] : i \in 1..Len(coll)}
PathIds(coll) == StoredIds(coll) \cup {Str("missing")}

\* Bodies of POST /users: a full one, a minimal one, one without the name.
UserCreateBodies ==
    { [name |-> Str("asha"), phone |-> Str("+919876543210"), location |-> Dict("kerala")],
      [name |-> Str("ravi")],
      [phone |-> Str("+919876543210")] }

\* Untyped bodies of PUT /users/{id}: profile fields, a null name, and the
\* id field set to an id in use or to a new text.
UserUpdateBodies ==
    { [crops |-> List("rice,coconut"), farm_size |-> Str("2-5 acres"),
       irrigation_type |-> Str("drip")],
      [name |-> None] }
    \cup {[id |-> v] : v \in StoredIds(users) \cup {Str("renamed")}}

Owners == {Str("farmer-1")}

\* Untyped bodies of POST /crops: the test's body; bodies
\* whose user_id is missing, null or empty; a body without the name; and a
\* body that names the id field with an id in use.
CropCreateBodies ==
    { [user_id |-> o, name |-> Str("Rice"), image_url |-> Str("rice.jpg"),
       planting_date |-> IsoText(isoformat(<<0, 5>>))] : o \in Owners }
    \cup { [name |-> Str("Rice")],
           [user_id |-> None, name |-> Str("Rice")],
           [user_id |-> Str(""), name |-> Str("Rice")],
           [user_id |-> Str("farmer-1")] }
    \cup {[user_id |-> Str("farmer-1"), name |-> Str("Banana"), id |-> v] : v \in StoredIds(crops)}

\* Untyped bodies of PUT /crop/{id}: the test's body, and the id field set
\* to an id in use or to a new text.
CropUpdateBodies ==
    { [current_stage |-> Str("flowering"), health_status |-> Str("good")] }
    \cup {[id |-> v] : v \in StoredIds(crops) \cup {Str("renamed")}}

\* Bodies of POST /activities: the test's body for a stored crop and for a
\* crop id nothing carries, and a body without the description.
ActivityCreateBodies ==
    { [crop_id |-> c, type |-> Str("watering"), description |-> Str("Watered the rice field"),
       quantity |-> Str("500L"), notes |-> Str("Morning irrigation")] : c \in PathIds(crops) }
    \cup { [crop_id |-> Str("missing"), type |-> Str("watering")] }

\* Records a database that outlives the process may hold at startup: a
\* user, a crop with an advice record, and an advice record of another crop.
LegacyUser ==
    prepare_for_mongo(
        Construct([name |-> Str("Demo Farmer"), location |-> Dict("kerala")], UserTypes,
                  UserDefaults(Str("user-0"), <<0, 0>>)))

LegacyCrop ==
    prepare_for_mongo(
        Construct([user_id |-> Str("farmer-1"), name |-> Str("Coconut")], CropTypes,
                  CropDefaults(UuidStr(0), <<0, 0>>)))

LegacyAdvice(id, crop_id) ==
    prepare_for_mongo(
        Construct([crop_id |-> crop_id, advice_text |-> Str("Water early in the morning.")],
                  AIAdviceTypes, AIAdviceDefaults(Str(id), <<0, 0>>)))

\* Uploaded files: a declared content type (None when the part declares
\* none), a file name, and the content.
Bytes(size, data) == [data |-> data, size |-> size]
UploadFile(content_type, filename, content) ==
    [content_type |-> content_type, filename |-> filename, content |-> content]

\* Files sent to the two image endpoints: an image that is empty, one byte,
\* exactly at the ceiling and one byte over it; one without a suffix; and
\* parts that declare another type or none.
ImageFiles ==
    { UploadFile(Str("image/png"), Str("leaf.jpg"), c) :
        c \in { Bytes(0, "empty"), Bytes(1, "a"), Bytes(MaxImageBytes, "photo"),
                Bytes(MaxImageBytes + 1, "photo") } }
    \cup { UploadFile(Str("image/png"), Str("leaf"), Bytes(1, "a")) }
    \cup { UploadFile(ct, Str("leaf.jpg"), c) :
             ct \in {Str("text/plain"), None},
             c \in {Bytes(1, "a"), Bytes(MaxImageBytes + 1, "photo")} }

\* Files sent to the transcription endpoint.
AudioFiles ==
    { UploadFile(Str("audio/webm"), Str("note.webm"), c) :
        c \in { Bytes(0, "empty"), Bytes(1, "a"), Bytes(MaxAudioBytes, "speech"),
                Bytes(MaxAudioBytes + 1, "speech") } }
    \cup { UploadFile(ct, Str("note.webm"), c) :
             ct \in {Str("application/octet-stream"), Str("text/plain"), None},
             c \in {Bytes(1, "a"), Bytes(MaxAudioBytes + 1, "speech")} }

\* Outcomes of one call of the hosted model.
Outcomes == {"text", "empty", "raise"}

\* The collections when the process starts: empty, or the legacy records.
StoreAtStartup(legacy) ==
    IF legacy
    THEN << <<LegacyUser>>, <<LegacyCrop>>, <<>>,
            <<LegacyAdvice("advice-1", UuidStr(0)), LegacyAdvice("advice-2", Str("other-crop"))>> >>
    ELSE << <<>>, <<>>, <<>>, <<>> >>

\* ----------------------------------------------------------------- startup
Init ==
    /\ phase = "boot"
    /\ mongo_url = FALSE
    /\ db = "none"
    /\ openai_client \in {"none", "client"}
    /\ WEATHERAPI_KEY \in BOOLEAN
    /\ \E legacy \in BOOLEAN :
          /\ users = StoreAtStartup(legacy)[1]
          /\ crops = StoreAtStartup(legacy)[2]
          /\ activities = StoreAtStartup(legacy)[3]
          /\ ai_advice = StoreAtStartup(legacy)[4]
    /\ issued = 0
    /\ files = {}
    /\ writes = 0
    /\ req = Request("none", None, NoData)
    /\ resp = Response(0, <<>>)
    /\ dblog = <<>>
    /\ upcalls = <<>>
    /\ inflight = <<>>

\* The credentials play no part in the persistence handlers.
InitPersistence == Init /\ openai_client = "none" /\ ~WEATHERAPI_KEY

\* Mutant of Connected: the handle is kept when the ping raised.
Connected_without_ping(url, ping_ok) == url

\* `if mongo_url:` and a ping that did not raise.
Connected(url, ping_ok) == url /\ ping_ok

\* startup_db_client: the handle is set when MONGO_URL is configured and the
\* ping succeeds; otherwise client and db stay None.  The ping is the one
\* call it makes, and only with a MONGO_URL.
startup_db_client(url, ping_ok) ==
    /\ phase = "boot"
    /\ phase' = "serving"
    /\ mongo_url' = url
    /\ db' = IF Connected(url, ping_ok) THEN "handle" ELSE "none"
    /\ dblog' = IF url THEN <<Call("ping", "admin", IF ping_ok THEN 1 ELSE 0)>> ELSE <<>>
    /\ UNCHANGED <<openai_client, WEATHERAPI_KEY, users, crops, activities, ai_advice, issued, files,
                   writes, req, resp, upcalls, inflight>>

\* ------------------------------------------------------------------- users
\* What a handler leaves behind: the request, the response, the gateway calls.
Reply(request, response, calls) ==
    /\ req' = request
    /\ resp' = response
    /\ dblog' = calls
    /\ upcalls' = <<>>

\* POST /users.  The body is validated against UserCreate before the handler
\* runs (HTTP 422).
create_user(user_data, now) ==
    LET request == Request("create_user", None, user_data)
        user_dict == Construct(user_data, UserCreateTypes, UserCreateDefaults)
        user_obj == Construct(user_dict, UserTypes, UserDefaults(uuid4, now))
    IN  /\ phase = "serving"
        /\ writes < MaxWrites
        /\ IF ~Validates(user_data, UserCreateTypes, UserCreateDefaults)
           THEN Reply(request, HTTPException(422), <<>>) /\ UNCHANGED <<users, issued, writes>>
           ELSE IF ~check_database_availability
           THEN Reply(request, HTTPException(503), <<>>) /\ UNCHANGED <<users, issued, writes>>
           ELSE IF ~HandleUsable
           THEN Reply(request, HTTPException(500), <<>>) /\ UNCHANGED <<users, issued, writes>>
           ELSE /\ users' = InsertOne(users, prepare_for_mongo(user_obj))
                /\ issued' = issued + 1
                /\ writes' = writes + 1
                /\ Reply(request, Response(200, <<user_obj>>), <<Call("insert_one", "users", 1)>>)
        /\ UNCHANGED <<phase, mongo_url, db, openai_client, WEATHERAPI_KEY, inflight, crops, activities, ai_advice, files>>

\* The handler's result for a document read back: User(**parse_from_mongo(doc)).
\* None for the document is a TypeError, an invalid field a ValidationError:
\* both unhandled (HTTP 500).
ReadBack(found, types) ==
    IF found = <<>> THEN HTTPException(500)
    ELSE IF ~Validates(parse_from_mongo(found[1]), types, NoData) THEN HTTPException(500)
    ELSE Response(200, <<Construct(parse_from_mongo(found[1]), types, NoData)>>)

\* GET /users/{user_id}
get_user_result(user_id) ==
    IF ~check_database_availability THEN HTTPException(503)
    ELSE IF ~HandleUsable THEN HTTPException(500)
    ELSE IF FindOne(users, "id", user_id) = <<>> THEN HTTPException(404)
    ELSE ReadBack(FindOne(users, "id", user_id), UserTypes)

get_user(user_id) ==
    /\ phase = "serving"
    /\ Reply(Request("get_user", user_id, NoData), get_user_result(user_id),
             IF HandleUsable
             THEN <<Call("find_one", "users", Len(FindOne(users, "id", user_id)))>>
             ELSE <<>>)
    /\ UNCHANGED <<phase, mongo_url, db, openai_client, WEATHERAPI_KEY, inflight, users, crops, activities, ai_advice, issued, files, writes>>

\* PUT /users/{user_id} with an untyped body.
update_user(user_id, user_data, now) ==
    LET request == Request("update_user", user_id, user_data)
        stamped == prepare_for_mongo(
                       SetFields(user_data, [updated_at |-> IsoText(isoformat(now))]))
        after == UpdateOne(users, "id", user_id, stamped)
        matched == MatchedCount(users, "id", user_id)
    IN  /\ phase = "serving"
        /\ writes < MaxWrites
        /\ IF ~check_database_availability
           THEN Reply(request, HTTPException(503), <<>>) /\ UNCHANGED <<users, writes>>
           ELSE IF ~HandleUsable
           THEN Reply(request, HTTPException(500), <<>>) /\ UNCHANGED <<users, writes>>
           ELSE IF matched = 0
           THEN /\ Reply(request, HTTPException(404), <<Call("update_one", "users", 0)>>)
                /\ UNCHANGED <<users, writes>>
           ELSE /\ users' = after
                /\ writes' = writes + 1
                /\ Reply(request, ReadBack(FindOne(after, "id", user_id), UserTypes),
                         <<Call("update_one", "users", 1),
                           Call("find_one", "users", Len(FindOne(after, "id", user_id)))>>)
        /\ UNCHANGED <<phase, mongo_url, db, openai_client, WEATHERAPI_KEY, inflight, crops, activities, ai_advice, issued, files>>

\* A list of documents read back: [Model(**parse_from_mongo(d)) for d in docs].
ReadBackAll(docs, types) ==
    IF \E i \in 1..Len(docs) : ~Validates(parse_from_mongo(docs[i]), types, NoData)
    THEN HTTPException(500)
    ELSE Response(200, [i \in 1..Len(docs) |-> Construct(parse_from_mongo(docs[i]), types, NoData)])

\* ------------------------------------------------------------------- crops
\* Mutant of Falsy: `if user_id is None`, so an empty text passes.
Falsy_only_none(v) == v.k = "none"

\* Python truth of a value: None, "", {} and [] are false.
Falsy(v) ==
    \/ v.k = "none"
    \/ v.k = "str" /\ v.s = "" /\ v.t = <<>>
    \/ v.k = "dict" /\ v.s = "{}"
    \/ v.k = "list" /\ v.s = "[]"

\* crop_data.pop('user_id', None)
PopUserId(crop_data) == IF "user_id" \in DOMAIN crop_data THEN crop_data["user_id"] ELSE None

\* POST /crops with an untyped body.
create_crop(crop_data, now) ==
    LET request == Request("create_crop", None, crop_data)
        user_id == PopUserId(crop_data)
        crop_dict == SetFields(crop_data, [user_id |-> user_id])
        defaults == CropDefaults(uuid4, now)
        crop_obj == Construct(crop_dict, CropTypes, defaults)
    IN  /\ phase = "serving"
        /\ writes < MaxWrites
        /\ IF ~check_database_availability
           THEN Reply(request, HTTPException(503), <<>>) /\ UNCHANGED <<crops, issued, writes>>
           ELSE IF Falsy(user_id)
           THEN Reply(request, HTTPException(400), <<>>) /\ UNCHANGED <<crops, issued, writes>>
           ELSE IF ~Validates(crop_dict, CropTypes, defaults) \/ ~HandleUsable
           THEN Reply(request, HTTPException(500), <<>>) /\ UNCHANGED <<crops, issued, writes>>
           ELSE /\ crops' = InsertOne(crops, prepare_for_mongo(crop_obj))
                /\ issued' = IF "id" \in DOMAIN crop_dict THEN issued ELSE issued + 1
                /\ writes' = writes + 1
                /\ Reply(request, Response(200, <<crop_obj>>), <<Call("insert_one", "crops", 1)>>)
        /\ UNCHANGED <<phase, mongo_url, db, openai_client, WEATHERAPI_KEY, inflight, users, activities, ai_advice, files>>

\* GET /crops/{user_id}
get_user_crops(user_id) ==
    /\ phase = "serving"
    /\ IF ~check_database_availability
       THEN Reply(Request("get_user_crops", user_id, NoData), HTTPException(503), <<>>)
       ELSE IF ~HandleUsable
       THEN Reply(Request("get_user_crops", user_id, NoData), HTTPException(500), <<>>)
       ELSE Reply(Request("get_user_crops", user_id, NoData),
                  ReadBackAll(Find(crops, "user_id", user_id), CropTypes),
                  <<Call("find", "crops", Len(Find(crops, "user_id", user_id)))>>)
    /\ UNCHANGED <<phase, mongo_url, db, openai_client, WEATHERAPI_KEY, inflight, users, crops, activities, ai_advice, issued, files, writes>>

\* GET /crop/{crop_id}
get_crop_result(crop_id) ==
    IF ~check_database_availability THEN HTTPException(503)
    ELSE IF ~HandleUsable THEN HTTPException(500)
    ELSE IF FindOne(crops, "id", crop_id) = <<>> THEN HTTPException(404)
    ELSE ReadBack(FindOne(crops, "id", crop_id), CropTypes)

get_crop(crop_id) ==
    /\ phase = "serving"
    /\ Reply(Request("get_crop", crop_id, NoData), get_crop_result(crop_id),
             IF HandleUsable
             THEN <<Call("find_one", "crops", Len(FindOne(crops, "id", crop_id)))>>
             ELSE <<>>)
    /\ UNCHANGED <<phase, mongo_url, db, openai_client, WEATHERAPI_KEY, inflight, users, crops, activities, ai_advice, issued, files, writes>>

\* PUT /crop/{crop_id} with an untyped body.
update_crop(crop_id, crop_data, now) ==
    LET request == Request("update_crop", crop_id, crop_data)
        stamped == prepare_for_mongo(
                       SetFields(crop_data, [updated_at |-> IsoText(isoformat(now))]))
        after == UpdateOne(crops, "id", crop_id, stamped)
        matched == MatchedCount(crops, "id", crop_id)
    IN  /\ phase = "serving"
        /\ writes < MaxWrites
        /\ IF ~check_database_availability
           THEN Reply(request, HTTPException(503), <<>>) /\ UNCHANGED <<crops, writes>>
           ELSE IF ~HandleUsable
           THEN Reply(request, HTTPException(500), <<>>) /\ UNCHANGED <<crops, writes>>
           ELSE IF matched = 0
           THEN /\ Reply(request, HTTPException(404), <<Call("update_one", "crops", 0)>>)
                /\ UNCHANGED <<crops, writes>>
           ELSE /\ crops' = after
                /\ writes' = writes + 1
                /\ Reply(request, ReadBack(FindOne(after, "id", crop_id), CropTypes),
                         <<Call("update_one", "crops", 1),
                           Call("find_one", "crops", Len(FindOne(after, "id", crop_id)))>>)
        /\ UNCHANGED <<phase, mongo_url, db, openai_client, WEATHERAPI_KEY, inflight, users, activities, ai_advice, issued, files>>

\* DELETE /crop/{crop_id}: the crop, then its activities, then its advice.
delete_crop(crop_id) ==
    LET request == Request("delete_crop", crop_id, NoData)
        crops_after == DeleteOne(crops, "id", crop_id)
        activities_after == DeleteMany(activities, "crop_id", crop_id)
        advice_after == DeleteMany(ai_advice, "crop_id", crop_id)
    IN  /\ phase = "serving"
        /\ writes < MaxWrites
        /\ IF ~check_database_availability
           THEN /\ Reply(request, HTTPException(503), <<>>)
                /\ UNCHANGED <<crops, activities, ai_advice, writes>>
           ELSE IF ~HandleUsable
           THEN /\ Reply(request, HTTPException(500), <<>>)
                /\ UNCHANGED <<crops, activities, ai_advice, writes>>
           ELSE IF DeletedCount(crops, crops_after) = 0
           THEN /\ Reply(request, HTTPException(404), <<Call("delete_one", "crops", 0)>>)
                /\ UNCHANGED <<crops, activities, ai_advice, writes>>
           ELSE /\ crops' = crops_after
                /\ activities' = activities_after
                /\ ai_advice' = advice_after
                /\ writes' = writes + 1
                /\ Reply(request, Response(200, <<>>),
                         <<Call("delete_one", "crops", 1),
                           Call("delete_many", "activities",
                                DeletedCount(activities, activities_after)),
                           Call("delete_many", "ai_advice",
                                DeletedCount(ai_advice, advice_after))>>)
        /\ UNCHANGED <<phase, mongo_url, db, openai_client, WEATHERAPI_KEY, inflight, users, issued, files>>

\* -------------------------------------------------------------- activities
\* {"$set": {"last_activity": datetime.now(timezone.utc).isoformat()}}
LastActivity(later) == [last_activity |-> IsoText(isoformat(later))]

\* POST /activities.  The body is validated against ActivityCreate before
\* the handler runs (HTTP 422).  The insert is followed by the update of
\* the crop's last_activity, stamped with a later reading of the clock.
create_activity(activity_data, now, later) ==
    LET request == Request("create_activity", None, activity_data)
        activity_dict == Construct(activity_data, ActivityCreateTypes, ActivityCreateDefaults)
        activity_obj ==
            Construct(activity_dict, ActivityTypes, ActivityDefaults(uuid4, now))
        crop_id == activity_data["crop_id"]
    IN  /\ phase = "serving"
        /\ writes < MaxWrites
        /\ IF ~Validates(activity_data, ActivityCreateTypes, ActivityCreateDefaults)
           THEN /\ Reply(request, HTTPException(422), <<>>)
                /\ UNCHANGED <<activities, crops, issued, writes>>
           ELSE IF ~check_database_availability
           THEN /\ Reply(request, HTTPException(503), <<>>)
                /\ UNCHANGED <<activities, crops, issued, writes>>
           ELSE IF ~HandleUsable
           THEN /\ Reply(request, HTTPException(500), <<>>)
                /\ UNCHANGED <<activities, crops, issued, writes>>
           ELSE /\ activities' = InsertOne(activities, prepare_for_mongo(activity_obj))
                /\ crops' = UpdateOne(crops, "id", crop_id, LastActivity(later))
                /\ issued' = issued + 1
                /\ writes' = writes + 1
                /\ Reply(request, Response(200, <<activity_obj>>),
                         <<Call("insert_one", "activities", 1),
                           Call("update_one", "crops", MatchedCount(crops, "id", crop_id))>>)
        /\ UNCHANGED <<phase, mongo_url, db, openai_client, WEATHERAPI_KEY, inflight, users, ai_advice, files>>

\* Order of two texts as MongoDB compares strings: by character code.
TextLess(a, b) ==
    \/ Len(a) < Len(b) /\ \A j \in 1..Len(a) : a[j] = b[j]
    \/ \E i \in 1..Len(a) :
          /\ i <= Len(b)
          /\ a[i] < b[i]
          /\ \A j \in 1..(i - 1) : a[j] = b[j]

\* Mutant of HeadDesc: no sort, the cursor's natural order.
HeadDesc_natural(docs, key, ties_reversed) == 1

\* The document a descending sort on `key` puts first: none has a greater
\* key; among equal keys the first in natural order, or the last when the
\* server breaks ties the other way.
HeadDesc(docs, key, ties_reversed) ==
    CHOOSE i \in 1..Len(docs) :
        /\ \A j \in 1..Len(docs) : ~TextLess(docs[i][key].t, docs[j][key].t)
        /\ \A j \in 1..Len(docs) :
              docs[j][key] = docs[i][key] => IF ties_reversed THEN j <= i ELSE i <= j

Remove(docs, i) == SubSeq(docs, 1, i - 1) \o SubSeq(docs, i + 1, Len(docs))

\* cursor.sort(key, -1)
RECURSIVE SortDesc(_, _, _)
SortDesc(docs, key, ties_reversed) ==
    IF docs = <<>> THEN <<>>
    ELSE <<docs[HeadDesc(docs, key, ties_reversed)]>>
            \o SortDesc(Remove(docs, HeadDesc(docs, key, ties_reversed)), key, ties_reversed)

\* GET /activities/{crop_id}
get_crop_activities(crop_id, ties_reversed) ==
    /\ phase = "serving"
    /\ IF ~check_database_availability
       THEN Reply(Request("get_crop_activities", crop_id, NoData), HTTPException(503), <<>>)
       ELSE IF ~HandleUsable
       THEN Reply(Request("get_crop_activities", crop_id, NoData), HTTPException(500), <<>>)
       ELSE Reply(Request("get_crop_activities", crop_id, NoData),
                  ReadBackAll(SortDesc(Find(activities, "crop_id", crop_id), "date",
                                       ties_reversed),
                              ActivityTypes),
                  <<Call("find", "activities", Len(Find(activities, "crop_id", crop_id)))>>)
    /\ UNCHANGED <<phase, mongo_url, db, openai_client, WEATHERAPI_KEY, inflight, users, crops, activities, ai_advice, issued, files, writes>>

\* ------------------------------------------------------------------- media
\* Mutant of StartsWith: any declared type passes.
StartsWith_any(v, prefix) == v.k = "str"

\* str.startswith on the declared content type.
StartsWith(v, prefix) ==
    /\ v.k = "str"
    /\ \/ prefix = "image/" /\ v.s \in {"image/png", "image/jpeg"}
       \/ prefix = "audio/" /\ v.s \in {"audio/webm", "audio/mpeg"}
       \/ prefix = "video/" /\ v.s \in {"video/webm", "video/mp4"}

\* Path(file.filename).suffix: 1 stands for ".jpg", 0 for no suffix.
Suffix(filename) == IF filename.s = "leaf.jpg" THEN 1 ELSE 0

\* Mutant of GeneratedName: one name for every upload with that suffix.
GeneratedName_fixed(n, ext) == [k |-> "str", s |-> "file", t |-> <<0, ext>>]

\* f"{uuid.uuid4().hex}{ext}" and f"/uploads/{filename}"
GeneratedName(n, ext) == [k |-> "str", s |-> "file", t |-> <<n, ext>>]
UploadsUrl(name) == [k |-> "str", s |-> "/uploads/", t |-> name.t]

\* app.mount("/uploads", StaticFiles(directory=UPLOAD_DIR)): the contents the
\* directory serves under a path (none when no file has that name).
StaticFiles(dir, url) == {f.content : f \in {g \in dir : UploadsUrl(g.name) = url}}

\* Mutant of TooLarge: the ceiling itself is refused.
TooLarge_inclusive(size, ceiling) == size >= ceiling

\* len(content) > ceiling
TooLarge(size, ceiling) == size > ceiling

\* open(file_path, "wb") and f.write(content): a file of that name is replaced.
WriteFile(dir, name, content) ==
    {f \in dir : f.name # name} \cup {[name |-> name, content |-> content]}

UpstreamCall(api, model, outcome) == [api |-> api, model |-> model, outcome |-> outcome]

ReplyMedia(request, response, calls) ==
    /\ req' = request
    /\ resp' = response
    /\ dblog' = <<>>
    /\ upcalls' = calls

\* POST /upload-image
upload_image(file) ==
    LET request == Request("upload_image", None, file)
        filename == GeneratedName(uuid4.t[1], Suffix(file.filename))
    IN  /\ phase = "serving"
        /\ Cardinality(files) < MaxUploads
        /\ IF file.content_type.k # "str"
           THEN ReplyMedia(request, HTTPException(500), <<>>) /\ UNCHANGED <<files, issued>>
           ELSE IF ~StartsWith(file.content_type, "image/")
           THEN ReplyMedia(request, HTTPException(400), <<>>) /\ UNCHANGED <<files, issued>>
           ELSE /\ files' = WriteFile(files, filename, file.content)
                /\ issued' = issued + 1
                /\ ReplyMedia(request, Response(200, <<[image_url |-> UploadsUrl(filename)]>>), <<>>)
        /\ UNCHANGED <<phase, mongo_url, db, openai_client, WEATHERAPI_KEY, inflight, users, crops, activities, ai_advice,
                       writes>>

\* Mutant of ClientMissing: the credential is never found missing.
ClientMissing_never == FALSE

\* `if not openai_client`
ClientMissing == openai_client = "none"

\* The fixed message of the adapter without a credential.
FeatureUnavailable ==
    Str("AI features are currently unavailable. Please configure the OpenAI API key.")

\* identify_crop_from_image: the fixed message without a client, the model's
\* text, or the canned text when the call raises.
identify_crop_from_image(outcome) ==
    IF ClientMissing THEN FeatureUnavailable
    ELSE IF outcome = "raise" THEN Str("Unable to identify crop from image.")
    ELSE IF outcome = "empty" THEN None
    ELSE Str("Coconut palm")

identify_calls(outcome) ==
    IF ClientMissing THEN <<>>
    ELSE <<UpstreamCall("chat.completions", "gpt-4o", outcome)>>

\* POST /upload-and-identify-crop
upload_and_identify_crop(file, outcome) ==
    LET request == Request("upload_and_identify_crop", None, file)
        file_size == file.content.size
        filename == GeneratedName(uuid4.t[1], Suffix(file.filename))
    IN  /\ phase = "serving"
        /\ Cardinality(files) < MaxUploads
        /\ IF file.content_type.k # "str"
           THEN ReplyMedia(request, HTTPException(500), <<>>) /\ UNCHANGED <<files, issued>>
           ELSE IF ~StartsWith(file.content_type, "image/")
           THEN ReplyMedia(request, HTTPException(400), <<>>) /\ UNCHANGED <<files, issued>>
           ELSE IF TooLarge(file_size, MaxImageBytes)
           THEN ReplyMedia(request, HTTPException(400), <<>>) /\ UNCHANGED <<files, issued>>
           ELSE /\ files' = WriteFile(files, filename, file.content)
                /\ issued' = issued + 1
                /\ ReplyMedia(request,
                              Response(200, <<[image_url |-> UploadsUrl(filename),
                                               crop_identification |->
                                                   identify_crop_from_image(outcome)]>>),
                              identify_calls(outcome))
        /\ UNCHANGED <<phase, mongo_url, db, openai_client, WEATHERAPI_KEY, inflight, users, crops, activities, ai_advice,
                       writes>>

\* The type test of transcribe: a declared type must be audio, video or
\* application/octet-stream; a part that declares none is let through.
AudioTypeRefused(content_type) ==
    /\ ~Falsy(content_type)
    /\ ~( \/ StartsWith(content_type, "audio/")
          \/ StartsWith(content_type, "video/")
          \/ content_type = Str("application/octet-stream") )

\* Mutant of FallsBack: the second model is asked whenever the first gave
\* no text.
FallsBack_on_empty(primary) == primary # "text"

\* `except Exception` around the whisper-1 call: the fallback runs when the
\* call raised.
FallsBack(primary) == primary = "raise"

\* POST /ai/transcribe: whisper-1, then gpt-4o-mini-transcribe if it raised.
transcribe_audio(file, primary, secondary) ==
    LET request == Request("transcribe_audio", None, file)
        first == UpstreamCall("audio.transcriptions", "whisper-1", primary)
        second == UpstreamCall("audio.transcriptions", "gpt-4o-mini-transcribe", secondary)
        result == IF FallsBack(primary) THEN secondary ELSE primary
        text == IF result = "text" THEN Str("vellam") ELSE Str("")
    IN  /\ phase = "serving"
        /\ IF ClientMissing THEN ReplyMedia(request, HTTPException(503), <<>>)
           ELSE IF AudioTypeRefused(file.content_type)
           THEN ReplyMedia(request, HTTPException(400), <<>>)
           ELSE IF file.content.size = 0 THEN ReplyMedia(request, HTTPException(400), <<>>)
           ELSE IF TooLarge(file.content.size, MaxAudioBytes)
           THEN ReplyMedia(request, HTTPException(413), <<>>)
           ELSE IF FallsBack(primary) /\ secondary = "raise"
           THEN ReplyMedia(request, HTTPException(500), <<first, second>>)
           ELSE ReplyMedia(request, Response(200, <<[text |-> text]>>),
                           IF FallsBack(primary) THEN <<first, second>> ELSE <<first>>)
        /\ UNCHANGED <<phase, mongo_url, db, openai_client, WEATHERAPI_KEY, inflight, users, crops, activities, ai_advice,
                       issued, files, writes>>

\* ---------------------------------------------------- weather and advice
\* What the weather provider does with one request: a report; no
\* connection; a status other than 2xx; a body that is no JSON; a JSON
\* body that is no object; a JSON object without the fields of a report.
WeatherOutcomes == {"ok", "network_error", "http_error", "not_json", "not_object", "no_fields"}

\* The report built from the provider's fields, and the one built from a
\* JSON object that has none of them: every field None but the time.
WeatherSnapshot == Dict("weather, temperature, humidity, wind, datetime, name")
WeatherSnapshotOfNulls == Dict("datetime")

\* get_weather_data: None without a key and on every exception; otherwise
\* the report built with data.get(...).
get_weather_data(outcome) ==
    IF ~WEATHERAPI_KEY THEN None
    ELSE IF outcome = "ok" THEN WeatherSnapshot
    ELSE IF outcome = "no_fields" THEN WeatherSnapshotOfNulls
    ELSE None

weather_calls(outcome) ==
    IF ~WEATHERAPI_KEY THEN <<>> ELSE <<UpstreamCall("weatherapi", "current.json", outcome)>>

\* The fixed text get_ai_advice returns when the call raises.
CannedAdvice ==
    Str("Unable to generate AI advice at this time. Please consult with local agricultural experts.")

\* get_ai_advice: the fixed message without a client, the model's text (None
\* when the completion carries none), the canned text when the call raises.
get_ai_advice(outcome) ==
    IF ClientMissing THEN FeatureUnavailable
    ELSE IF outcome = "raise" THEN CannedAdvice
    ELSE IF outcome = "empty" THEN None
    ELSE Str("Water the seedlings early.")

advice_calls(outcome) ==
    IF ClientMissing THEN <<>> ELSE <<UpstreamCall("chat.completions", "gpt-4o", outcome)>>

\* What a handler without a step in the store leaves behind.
Result(response, calls, upstream) == [dblog |-> calls, upcalls |-> upstream, response |-> response]

\* POST /ai/advice/{crop_name}: the weather is fetched only with a key.
get_crop_advice(crop_name, o) ==
    LET weather_data == IF WEATHERAPI_KEY THEN get_weather_data(o.weather) ELSE None
    IN  Result(Response(200, <<[advice |-> get_ai_advice(o.ai), weather |-> weather_data]>>),
               <<>>,
               (IF WEATHERAPI_KEY THEN weather_calls(o.weather) ELSE <<>>) \o advice_calls(o.ai))

\* POST /ai/identify-crop
identify_crop(image, o) ==
    IF ClientMissing THEN Result(HTTPException(503), <<>>, <<>>)
    ELSE Result(Response(200, <<[identification |-> identify_crop_from_image(o.ai)]>>),
                <<>>, identify_calls(o.ai))

ChatMessageTypes ==
    [message |-> "str", crop_id |-> "optstr", image_base64 |-> "optstr", word_limit |-> "optint"]
ChatMessageDefaults == [crop_id |-> None, image_base64 |-> None, word_limit |-> IntValue(50)]

\* Mutant of NeedsCropContext: the crop is looked up whenever an id is given.
NeedsCropContext_unguarded(handle, crop_id) == ~Falsy(crop_id)

\* `if chat_data.crop_id and db`
NeedsCropContext(handle, crop_id) == ~Falsy(crop_id) /\ handle # "none"

\* POST /ai/chat.  The body is validated against ChatMessage before the
\* handler runs (HTTP 422).  Everything after the credential check is inside
\* `except Exception`, which answers 500: an attribute of an unset handle, a
\* crop without a name, a call that raises, a completion without content.
chat_with_ai(handle, chat_data, o) ==
    LET body == Construct(chat_data, ChatMessageTypes, ChatMessageDefaults)
        looks_up == NeedsCropContext(handle, body["crop_id"])
        found == FindOne(crops, "id", body["crop_id"])
        calls == IF looks_up /\ handle # "none"
                 THEN <<Call("find_one", "crops", Len(found))>> ELSE <<>>
        upstream == <<UpstreamCall("chat.completions", "gpt-4o", o.ai)>>
    IN  IF ~Validates(chat_data, ChatMessageTypes, ChatMessageDefaults)
        THEN Result(HTTPException(422), <<>>, <<>>)
        ELSE IF ClientMissing THEN Result(HTTPException(503), <<>>, <<>>)
        ELSE IF looks_up /\ handle = "none" THEN Result(HTTPException(500), <<>>, <<>>)
        ELSE IF looks_up /\ found # <<>> /\ "name" \notin DOMAIN found[1]
        THEN Result(HTTPException(500), calls, <<>>)
        ELSE IF o.ai # "text" THEN Result(HTTPException(500), calls, upstream)
        ELSE Result(Response(200, <<[response |-> Str("Water early in the morning.")]>>),
                    calls, upstream)

\* The path parameters lat and lon are declared float.
IsFloat(v) == v \in {Str("8.5241"), Str("76.9366")}

\* GET /weather/{lat}/{lon}
get_weather(coordinates, o) ==
    IF ~(IsFloat(coordinates.lat) /\ IsFloat(coordinates.lon))
    THEN Result(HTTPException(422), <<>>, <<>>)
    ELSE IF get_weather_data(o.weather) # None
    THEN Result(Response(200, <<[weather |-> get_weather_data(o.weather)]>>),
                <<>>, weather_calls(o.weather))
    ELSE Result(HTTPException(404), <<>>, weather_calls(o.weather))

\* GET /, GET /health, GET /demo
root(handle) ==
    Result(Response(200, <<[mongodb |-> Str(IF handle # "none" THEN "connected"
                                            ELSE "not configured")]>>), <<>>, <<>>)
health_check(handle) ==
    Result(Response(200, <<[status |-> Str("healthy"),
                            mongodb |-> Str(IF handle # "none" THEN "connected"
                                            ELSE "not configured"),
                            openai |-> Str(IF ClientMissing THEN "not configured"
                                           ELSE "available")]>>), <<>>, <<>>)
demo_data(handle) ==
    Result(Response(200, <<[demo_mode |-> Str(IF handle # "none" THEN "" ELSE "true")]>>),
           <<>>, <<>>)

\* ------------------------------------------------------------------ inputs
CropNames == {Str("rice")}
ChatBodies ==
    { [message |-> Str("When should I water?"), word_limit |-> IntValue(30)],
      [image_base64 |-> Str("aGVsbG8=")] }
    \cup { [message |-> Str("When should I water?"), crop_id |-> c] : c \in PathIds(crops) }
CoordinatePairs ==
    { [lat |-> Str("8.5241"), lon |-> Str("76.9366")],
      [lat |-> Str("north"), lon |-> Str("76.9366")] }
UpstreamOutcomes == [weather : WeatherOutcomes, ai : Outcomes]

\* The answer of an endpoint that has no step in the store, under a handle.
Answer(handle, request, o) ==
    CASE request.op = "get_crop_advice" -> get_crop_advice(request.id, o)
      [] request.op = "identify_crop" -> identify_crop(request.data, o)
      [] request.op = "chat_with_ai" -> chat_with_ai(handle, request.data, o)
      [] request.op = "get_weather" -> get_weather(request.data, o)
      [] request.op = "root" -> root(handle)
      [] request.op = "health_check" -> health_check(handle)
      [] request.op = "demo_data" -> demo_data(handle)

Serve(request, o) ==
    /\ phase = "serving"
    /\ req' = request
    /\ resp' = Answer(db, request, o).response
    /\ dblog' = Answer(db, request, o).dblog
    /\ upcalls' = Answer(db, request, o).upcalls
    /\ UNCHANGED <<phase, mongo_url, db, openai_client, WEATHERAPI_KEY, inflight, users, crops, activities, ai_advice, issued, files, writes>>

GetCropAdvice ==
    \E crop_name \in CropNames, o \in UpstreamOutcomes :
        Serve(Request("get_crop_advice", crop_name, NoData), o)
IdentifyCrop ==
    \E image \in ImageFiles, o \in UpstreamOutcomes : Serve(Request("identify_crop", None, image), o)
ChatWithAi ==
    \E chat_data \in ChatBodies, o \in UpstreamOutcomes :
        Serve(Request("chat_with_ai", None, chat_data), o)
GetWeather ==
    \E coordinates \in CoordinatePairs, o \in UpstreamOutcomes :
        Serve(Request("get_weather", None, coordinates), o)
Root == \E o \in UpstreamOutcomes : Serve(Request("root", None, NoData), o)
HealthCheck == \E o \in UpstreamOutcomes : Serve(Request("health_check", None, NoData), o)
DemoData == \E o \in UpstreamOutcomes : Serve(Request("demo_data", None, NoData), o)

Startup == \E url \in BOOLEAN, ping_ok \in BOOLEAN : startup_db_client(url, ping_ok)
CreateUser == \E user_data \in UserCreateBodies, now \in Instants : create_user(user_data, now)
GetUser == \E user_id \in PathIds(users) : get_user(user_id)
UpdateUser ==
    \E user_id \in PathIds(users), user_data \in UserUpdateBodies, now \in Instants :
        update_user(user_id, user_data, now)

CreateCrop == \E crop_data \in CropCreateBodies, now \in Instants : create_crop(crop_data, now)
GetUserCrops == \E user_id \in Owners \cup {Str("missing")} : get_user_crops(user_id)
GetCrop == \E crop_id \in PathIds(crops) : get_crop(crop_id)
UpdateCrop ==
    \E crop_id \in PathIds(crops), crop_data \in CropUpdateBodies, now \in Instants :
        update_crop(crop_id, crop_data, now)
DeleteCrop == \E crop_id \in PathIds(crops) : delete_crop(crop_id)
CreateActivity ==
    \E activity_data \in ActivityCreateBodies, now \in Instants, later \in Instants :
        create_activity(activity_data, now, later)
GetCropActivities ==
    \E crop_id \in PathIds(crops), ties_reversed \in BOOLEAN :
        get_crop_activities(crop_id, ties_reversed)

NextCrops == Startup \/ CreateCrop \/ GetUserCrops \/ GetCrop \/ UpdateCrop \/ DeleteCrop
SpecCrops == InitPersistence /\ [][NextCrops]_vars

NextActivities == Startup \/ CreateCrop \/ CreateActivity \/ GetCropActivities \/ DeleteCrop
SpecActivities == InitPersistence /\ [][NextActivities]_vars

UploadImage == \E file \in ImageFiles : upload_image(file)
UploadAndIdentifyCrop ==
    \E file \in ImageFiles, outcome \in Outcomes : upload_and_identify_crop(file, outcome)
TranscribeAudio ==
    \E file \in AudioFiles, primary \in Outcomes :
        \E secondary \in Outcomes :
            transcribe_audio(file, primary, secondary)

NextMedia == Startup \/ UploadImage \/ UploadAndIdentifyCrop \/ TranscribeAudio
\* The weather key plays no part in the media handlers.
InitMedia == Init /\ ~WEATHERAPI_KEY
SpecMedia == InitMedia /\ [][NextMedia]_vars

NextUsers == Startup \/ CreateUser \/ GetUser \/ UpdateUser
SpecUsers == InitPersistence /\ [][NextUsers]_vars

\* The process whose store is unreachable: no MONGO_URL, or a failed ping.
StartupUnavailable ==
    \E url \in BOOLEAN, ping_ok \in BOOLEAN :
        ~(url /\ ping_ok) /\ startup_db_client(url, ping_ok)

NextDegraded ==
    \/ StartupUnavailable
    \/ CreateUser
    \/ GetUser
    \/ UpdateUser
    \/ CreateCrop
    \/ GetUserCrops
    \/ GetCrop
    \/ UpdateCrop
    \/ DeleteCrop
    \/ CreateActivity
    \/ GetCropActivities
SpecDegraded == InitPersistence /\ [][NextDegraded]_vars

\* ------------------------------------------------- handlers at their awaits
\* A handler runs without interruption up to an await, where the event loop
\* may run another handler; the gateway call of the await takes effect in
\* one step.  A task is a handler in flight: its next await ("done" when it
\* has answered), the crop id it works on, the document it inserts, its
\* status (0 until it answers), whether its insert has taken effect, and
\* whether another handler was in flight when it was accepted.
Task(op, pc, id, doc, status) ==
    [id |-> id, doc |-> doc, op |-> op, status |-> status, pc |-> pc, inserted |-> FALSE,
     overlapped |-> \E t \in 1..Len(inflight) : inflight[t].pc # "done"]

\* Mutant of create_activity_awaits: the crop is updated before the insert.
create_activity_awaits_swapped == <<"update_one crops", "insert_one activities">>

\* The awaits of create_activity and of delete_crop, in source order.
create_activity_awaits == <<"insert_one activities", "update_one crops">>
delete_crop_awaits == <<"delete_one crops", "delete_many activities", "delete_many ai_advice">>

\* The await that follows pc, "done" after the last.
After(awaits, pc) ==
    LET i == CHOOSE j \in 1..Len(awaits) : awaits[j] = pc
    IN  IF i = Len(awaits) THEN "done" ELSE awaits[i + 1]

Accept(task) ==
    /\ phase = "serving"
    /\ Len(inflight) < MaxTasks
    /\ inflight' = Append(inflight, task)

\* delete_crop up to its first await.
delete_crop_begin(crop_id) ==
    /\ Accept(IF ~check_database_availability
              THEN Task("delete_crop", "done", crop_id, NoData, 503)
              ELSE Task("delete_crop", delete_crop_awaits[1], crop_id, NoData, 0))
    /\ UNCHANGED <<phase, mongo_url, db, openai_client, WEATHERAPI_KEY, users, crops, activities, ai_advice, issued, files, writes, req, resp, dblog, upcalls>>

\* One await of delete_crop: 404 when delete_one removed nothing, otherwise
\* the two delete_many in turn, then the answer.
delete_crop_step(t) ==
    LET task == inflight[t]
        next == After(delete_crop_awaits, task.pc)
        absent == task.pc = "delete_one crops" /\ MatchedCount(crops, "id", task.id) = 0
    IN  /\ task.op = "delete_crop"
        /\ task.pc # "done"
        /\ crops' = IF task.pc = "delete_one crops" THEN DeleteOne(crops, "id", task.id) ELSE crops
        /\ activities' = IF task.pc = "delete_many activities"
                         THEN DeleteMany(activities, "crop_id", task.id) ELSE activities
        /\ ai_advice' = IF task.pc = "delete_many ai_advice"
                        THEN DeleteMany(ai_advice, "crop_id", task.id) ELSE ai_advice
        /\ inflight' = [inflight EXCEPT
                           ![t].pc = IF absent THEN "done" ELSE next,
                           ![t].status = IF absent THEN 404 ELSE IF next = "done" THEN 200 ELSE 0]
        /\ UNCHANGED <<phase, mongo_url, db, openai_client, WEATHERAPI_KEY, users, issued, files, writes, req, resp, dblog, upcalls>>

\* create_activity up to its first await: the body is validated, the handle
\* checked, the Activity constructed.
create_activity_begin(activity_data, now) ==
    LET activity_dict == Construct(activity_data, ActivityCreateTypes, ActivityCreateDefaults)
        activity_obj == Construct(activity_dict, ActivityTypes, ActivityDefaults(uuid4, now))
        refused == IF ~Validates(activity_data, ActivityCreateTypes, ActivityCreateDefaults)
                   THEN 422 ELSE IF ~check_database_availability THEN 503 ELSE 0
    IN  /\ IF refused # 0
           THEN /\ Accept(Task("create_activity", "done", None, NoData, refused))
                /\ UNCHANGED issued
           ELSE /\ Accept(Task("create_activity", create_activity_awaits[1],
                               activity_data["crop_id"], prepare_for_mongo(activity_obj), 0))
                /\ issued' = issued + 1
        /\ UNCHANGED <<phase, mongo_url, db, openai_client, WEATHERAPI_KEY, users, crops, activities, ai_advice, files, writes, req, resp, dblog, upcalls>>

\* One await of create_activity: the insert, or the update of the crop's
\* last_activity with the clock read at that line.
create_activity_step(t, later) ==
    LET task == inflight[t]
        next == After(create_activity_awaits, task.pc)
    IN  /\ task.op = "create_activity"
        /\ task.pc # "done"
        /\ activities' = IF task.pc = "insert_one activities"
                         THEN InsertOne(activities, task.doc) ELSE activities
        /\ crops' = IF task.pc = "update_one crops"
                    THEN UpdateOne(crops, "id", task.id, LastActivity(later)) ELSE crops
        /\ inflight' = [inflight EXCEPT
                           ![t].pc = next,
                           ![t].status = IF next = "done" THEN 200 ELSE 0,
                           ![t].inserted = @ \/ task.pc = "insert_one activities"]
        /\ UNCHANGED <<phase, mongo_url, db, openai_client, WEATHERAPI_KEY, users, ai_advice, issued, files, writes, req, resp, dblog, upcalls>>

\* create_activity ends between its two awaits: the second call raises (or
\* the task is cancelled there), which nothing catches and nothing undoes.
create_activity_stops(t) ==
    LET task == inflight[t]
    IN  /\ task.op = "create_activity"
        /\ task.pc = create_activity_awaits[2]
        /\ inflight' = [inflight EXCEPT ![t].pc = "done", ![t].status = 500]
        /\ UNCHANGED <<phase, mongo_url, db, openai_client, WEATHERAPI_KEY, users, crops, activities, ai_advice, issued, files, writes, req, resp, dblog, upcalls>>

\* delete_crop and create_activity interleaved at their awaits.
NextConcurrent ==
    \/ Startup
    \/ \E crop_id \in PathIds(crops) : delete_crop_begin(crop_id)
    \/ \E t \in 1..Len(inflight) : delete_crop_step(t)
    \/ \E activity_data \in ActivityCreateBodies, now \in Instants :
           create_activity_begin(activity_data, now)
    \/ \E t \in 1..Len(inflight), later \in Instants : create_activity_step(t, later)
    \/ \E t \in 1..Len(inflight) : create_activity_stops(t)
SpecConcurrent == InitPersistence /\ [][NextConcurrent]_vars

\* The awaits of update_crop, in source order.
update_crop_awaits == <<"update_one crops", "find_one crops">>

\* update_crop up to its first await: the handle is checked, the body
\* stamped with the clock and prepared.
update_crop_begin(crop_id, crop_data, now) ==
    LET stamped == prepare_for_mongo(
                       SetFields(crop_data, [updated_at |-> IsoText(isoformat(now))]))
    IN  /\ Accept(IF ~check_database_availability
                  THEN Task("update_crop", "done", crop_id, NoData, 503)
                  ELSE Task("update_crop", update_crop_awaits[1], crop_id, stamped, 0))
        /\ UNCHANGED <<phase, mongo_url, db, openai_client, WEATHERAPI_KEY, users, crops, activities, ai_advice, issued, files, writes, req, resp, dblog, upcalls>>

\* One await of update_crop: the update, 404 when it matched nothing; then
\* the read-back, whose result goes through Crop(**parse_from_mongo(...)).
update_crop_step(t) ==
    LET task == inflight[t]
        absent == task.pc = "update_one crops" /\ MatchedCount(crops, "id", task.id) = 0
        answer == ReadBack(FindOne(crops, "id", task.id), CropTypes).status
    IN  /\ task.op = "update_crop"
        /\ task.pc # "done"
        /\ crops' = IF task.pc = "update_one crops"
                    THEN UpdateOne(crops, "id", task.id, task.doc) ELSE crops
        /\ inflight' = [inflight EXCEPT
                           ![t].pc = IF absent THEN "done" ELSE After(update_crop_awaits, task.pc),
                           ![t].status = IF absent THEN 404
                                         ELSE IF task.pc = "find_one crops" THEN answer ELSE 0]
        /\ UNCHANGED <<phase, mongo_url, db, openai_client, WEATHERAPI_KEY, users, activities, ai_advice, issued, files, writes, req, resp, dblog, upcalls>>

\* update_crop and delete_crop interleaved at their awaits.
NextRacingUpdate ==
    \/ Startup
    \/ \E crop_id \in PathIds(crops) : delete_crop_begin(crop_id)
    \/ \E t \in 1..Len(inflight) : delete_crop_step(t)
    \/ \E crop_id \in PathIds(crops), crop_data \in CropUpdateBodies, now \in Instants :
           update_crop_begin(crop_id, crop_data, now)
    \/ \E t \in 1..Len(inflight) : update_crop_step(t)
SpecRacingUpdate == InitPersistence /\ [][NextRacingUpdate]_vars

\* The endpoints that ask the weather provider or the hosted model.
NextAdvisory ==
    \/ Startup
    \/ GetCropAdvice
    \/ IdentifyCrop
    \/ ChatWithAi
    \/ TranscribeAudio
    \/ GetWeather
    \/ Root
    \/ HealthCheck
    \/ DemoData
SpecAdvisory == Init /\ [][NextAdvisory]_vars

Next ==
    \/ Startup
    \/ CreateUser
    \/ GetUser
    \/ UpdateUser
    \/ CreateCrop
    \/ GetUserCrops
    \/ GetCrop
    \/ UpdateCrop
    \/ DeleteCrop
    \/ CreateActivity
    \/ GetCropActivities
    \/ UploadImage
    \/ UploadAndIdentifyCrop
    \/ TranscribeAudio
    \/ GetCropAdvice
    \/ IdentifyCrop
    \/ ChatWithAi
    \/ GetWeather
    \/ Root
    \/ HealthCheck
    \/ DemoData
Spec == Init /\ [][Next]_vars

\* ================================================================== claims
PersistenceOps ==
    {"create_user", "get_user", "update_user", "create_crop", "get_user_crops", "get_crop",
     "update_crop", "delete_crop", "create_activity", "get_crop_activities"}

\* The request body passes the schema the endpoint declares for it.
BodyAccepted(r) ==
    CASE r.op = "create_user" -> Validates(r.data, UserCreateTypes, UserCreateDefaults)
      [] r.op = "create_activity" ->
            Validates(r.data, ActivityCreateTypes, ActivityCreateDefaults)
      [] OTHER -> TRUE

Degraded == phase = "serving" /\ db = "none"
Enabled == phase = "serving" /\ db = "handle"

C2_Delete_Cascades ==
    [][ (req'.op = "delete_crop" /\ resp'.status = 200) =>
            LET c == req'.id
            IN  /\ \A i \in 1..Len(crops') : crops'[i]["id"] # c
                /\ \A i \in 1..Len(activities') : activities'[i]["crop_id"] # c
                /\ \A i \in 1..Len(ai_advice') : ai_advice'[i]["crop_id"] # c
                /\ crops' = SelectSeq(crops, LAMBDA d : d["id"] # c)
                /\ activities' = SelectSeq(activities, LAMBDA d : d["crop_id"] # c)
                /\ ai_advice' = SelectSeq(ai_advice, LAMBDA d : d["crop_id"] # c)
                /\ users' = users ]_vars

\* C3: a successful create_user returns an id that no earlier uuid4() call
\* returned and no other stored user carries, and get_user of that id
\* returns 200 with the same id, name, phone and location.
C3_Create_Then_Get ==
    (Enabled /\ req.op = "create_user" /\ resp.status = 200) =>
        LET created == resp.body[1]
            got == get_user_result(created["id"])
        IN  /\ created["id"] \notin {UuidStr(n) : n \in 1..(issued - 1)}
            /\ \A i \in 1..(Len(users) - 1) : users[i]["id"] # created["id"]
            /\ got.status = 200
            /\ \A f \in {"id", "name", "phone", "location"} : got.body[1][f] = created[f]

\* C3 witness: a second user was created from the full body.
C3_Witness ==
    /\ Enabled
    /\ req.op = "create_user"
    /\ resp.status = 200
    /\ Len(users) >= 2
    /\ resp.body[1]["phone"] # None
    /\ resp.body[1]["location"] = Dict("kerala")

NoDuplicateIds(coll) ==
    \A i, j \in 1..Len(coll) : coll[i]["id"] = coll[j]["id"] => i = j

\* C4 as stated: in every reachable state no two stored users share an id
\* and no two stored crops share an id.
C4_Ids_Unique == NoDuplicateIds(users) /\ NoDuplicateIds(crops)

Earlier(a, b) == a[1] < b[1] \/ (a[1] = b[1] /\ a[2] < b[2])

\* C5: get_crop_activities(c) answers 200 with exactly the stored activities
\* whose crop_id is c (none when there are none), no activity before one
\* whose date is later.
C5_Activities_Newest_First ==
    (Enabled /\ req.op = "get_crop_activities") =>
        LET mine == {i \in 1..Len(activities) : activities[i]["crop_id"] = req.id}
        IN  /\ resp.status = 200
            /\ Len(resp.body) = Cardinality(mine)
            /\ \A i \in mine : \E j \in 1..Len(resp.body) :
                  resp.body[j] = Construct(parse_from_mongo(activities[i]), ActivityTypes, NoData)
            /\ \A i, j \in 1..Len(resp.body) :
                  i < j => ~Earlier(resp.body[i]["date"].t, resp.body[j]["date"].t)

\* C5 witness: two activities of the crop with different dates, listed in
\* the reverse of their stored order.
C5_Witness ==
    /\ Enabled
    /\ req.op = "get_crop_activities"
    /\ resp.status = 200
    /\ Len(resp.body) >= 2
    /\ Earlier(resp.body[2]["date"].t, resp.body[1]["date"].t)
    /\ Find(activities, "crop_id", req.id)[1]["id"] # resp.body[1]["id"]

\* C6 as stated: update_user / update_crop on an existing id writes exactly
\* the fields of the body and updated_at, leaves every other field and
\* record unchanged and returns the updated record; on an absent id it
\* answers 404 and changes nothing.
C6_Partial_Merge ==
    [][ (db = "handle" /\ req'.op \in {"update_user", "update_crop"}) =>
            LET before == IF req'.op = "update_user" THEN users ELSE crops
                after == IF req'.op = "update_user" THEN users' ELSE crops'
                types == IF req'.op = "update_user" THEN UserTypes ELSE CropTypes
                data == req'.data
                k == FirstMatch(before, "id", req'.id)
            IN  IF k = 0
                THEN resp'.status = 404 /\ after = before
                ELSE /\ Len(after) = Len(before)
                     /\ \A i \in 1..Len(before) : i # k => after[i] = before[i]
                     /\ DOMAIN after[k] = DOMAIN before[k] \cup DOMAIN data \cup {"updated_at"}
                     /\ \A f \in DOMAIN after[k] \ {"updated_at"} :
                           after[k][f] = IF f \in DOMAIN data THEN data[f] ELSE before[k][f]
                     /\ resp'.status = 200
                     /\ resp'.body = <<Construct(parse_from_mongo(after[k]), types, NoData)>> ]_vars

\* C7: create_activity with an accepted body whose crop_id matches no stored
\* crop answers 200, appends the activity, and leaves every crop as it was.
C7_Activity_Without_Crop ==
    [][ ( /\ db = "handle"
          /\ req'.op = "create_activity"
          /\ BodyAccepted(req')
          /\ FirstMatch(crops, "id", req'.data["crop_id"]) = 0 ) =>
            /\ resp'.status = 200
            /\ Len(activities') = Len(activities) + 1
            /\ SubSeq(activities', 1, Len(activities)) = activities
            /\ activities'[Len(activities')]["crop_id"] = req'.data["crop_id"]
            /\ activities'[Len(activities')]["id"] = resp'.body[1]["id"]
            /\ crops' = crops ]_vars

\* C7 witness: the activity was stored, the last_activity update matched no
\* crop, and the store holds a crop.
C7_Witness ==
    /\ Enabled
    /\ req.op = "create_activity"
    /\ resp.status = 200
    /\ Len(dblog) = 2
    /\ dblog[2] = Call("update_one", "crops", 0)
    /\ crops # <<>>
    /\ activities[Len(activities)]["crop_id"] = Str("missing")

NoOwner(data) == "user_id" \notin DOMAIN data \/ data["user_id"] \in {None, Str("")}

\* C8: with the gateway enabled, create_crop with a missing, null or empty
\* user_id answers 400 and inserts no crop; and a crop that create_crop
\* inserts carries a non-empty text as its user_id.
C8_Owner_Required ==
    [][ (db = "handle" /\ req'.op = "create_crop") =>
            /\ NoOwner(req'.data) => (resp'.status = 400 /\ crops' = crops)
            /\ crops' # crops =>
                  /\ Len(crops') = Len(crops) + 1
                  /\ crops'[Len(crops')]["user_id"].k = "str"
                  /\ crops'[Len(crops')]["user_id"] # Str("") ]_vars

\* C8 witness: a body whose user_id is the empty text was answered 400.
C8_Witness ==
    /\ Enabled
    /\ req.op = "create_crop"
    /\ "user_id" \in DOMAIN req.data
    /\ req.data["user_id"] = Str("")
    /\ resp.status = 400

\* C9: upload_image of a file whose declared content type does not start
\* with image/ answers 400 and leaves the upload directory as it was.
C9_Non_Image_Refused ==
    [][ ( /\ req'.op = "upload_image"
          /\ req'.data.content_type.k = "str"
          /\ req'.data.content_type \notin {Str("image/png"), Str("image/jpeg")} ) =>
            (resp'.status = 400 /\ files' = files) ]_vars

\* C9 witness: a text/plain upload was answered 400 with a file already in
\* the directory.
C9_Witness ==
    /\ req.op = "upload_image"
    /\ req.data.content_type = Str("text/plain")
    /\ resp.status = 400
    /\ files # {}

\* C10 as stated: an image over 10 MB sent to upload-image or to
\* upload-and-identify-crop is answered with an HTTP error and no file is
\* written; audio over 20 MB sent to transcribe is answered with an HTTP
\* error and no upstream call is made.
C10_Size_Ceilings ==
    [][ /\ ( /\ req'.op \in {"upload_image", "upload_and_identify_crop"}
             /\ req'.data.content_type = Str("image/png")
             /\ req'.data.content.size > MaxImageBytes ) =>
                (resp'.status >= 400 /\ files' = files)
        /\ (req'.op = "transcribe_audio" /\ req'.data.content.size > MaxAudioBytes) =>
                (resp'.status >= 400 /\ upcalls' = <<>>) ]_vars

ImageTypes == {Str("image/png"), Str("image/jpeg")}

\* C11: upload_image of a non-empty image of at most 10 MB answers 200 with
\* a path that named no file before and now serves exactly the uploaded
\* content; and no step changes what the path of a stored file serves.
C11_Upload_Round_Trip ==
    [][ /\ ( /\ req'.op = "upload_image"
             /\ req'.data.content_type \in ImageTypes
             /\ req'.data.content.size > 0
             /\ req'.data.content.size <= MaxImageBytes ) =>
                /\ resp'.status = 200
                /\ StaticFiles(files, resp'.body[1].image_url) = {}
                /\ StaticFiles(files', resp'.body[1].image_url) = {req'.data.content}
        /\ \A f \in files : StaticFiles(files', UploadsUrl(f.name)) = {f.content} ]_vars

\* C11 witness: a second upload was stored and the file of an earlier upload
\* with other content is still served under its own path.
C11_Witness ==
    /\ req.op = "upload_image"
    /\ resp.status = 200
    /\ StaticFiles(files, resp.body[1].image_url) = {req.data.content}
    /\ \E f \in files :
          /\ UploadsUrl(f.name) # resp.body[1].image_url
          /\ f.content # req.data.content
          /\ StaticFiles(files, UploadsUrl(f.name)) = {f.content}

\* The outcome of the last upstream call of a request.
LastOutcome(calls) == calls[Len(calls)].outcome

\* C16: for an accepted audio file the first call is to whisper-1, a second
\* call is made exactly when the first raised and goes to
\* gpt-4o-mini-transcribe, there is no third; the answer is 500 when the
\* last call raised and 200 otherwise, with the empty text when the result
\* carries none.
C16_Transcribe_Fallback ==
    [][ ( /\ req'.op = "transcribe_audio"
          /\ openai_client = "client"
          /\ req'.data.content_type \in {Str("audio/webm"), Str("application/octet-stream"), None}
          /\ req'.data.content.size > 0
          /\ req'.data.content.size <= MaxAudioBytes ) =>
            /\ Len(upcalls') \in {1, 2}
            /\ upcalls'[1].model = "whisper-1"
            /\ Len(upcalls') = 2 <=> upcalls'[1].outcome = "raise"
            /\ Len(upcalls') = 2 => upcalls'[2].model = "gpt-4o-mini-transcribe"
            /\ resp'.status = IF LastOutcome(upcalls') = "raise" THEN 500 ELSE 200
            /\ LastOutcome(upcalls') = "empty" => resp'.body = <<[text |-> Str("")]>> ]_vars

\* C16 witness: whisper-1 raised, the fallback gave a result without text,
\* and the answer was 200 with the empty text.
C16_Witness ==
    /\ req.op = "transcribe_audio"
    /\ Len(upcalls) = 2
    /\ upcalls[1].outcome = "raise"
    /\ upcalls[2].outcome = "empty"
    /\ resp.status = 200
    /\ resp.body = <<[text |-> Str("")]>>

NoPersistenceOps == {"health_check", "demo_data", "get_weather", "get_crop_advice", "chat_with_ai"}
AdvisoryOps == {"get_crop_advice", "identify_crop", "chat_with_ai", "transcribe_audio"}

\* The calls of a request that went to the hosted model.
ModelCalls(calls) == SelectSeq(calls, LAMBDA c : c.api # "weatherapi")
WeatherCalls(calls) == SelectSeq(calls, LAMBDA c : c.api = "weatherapi")

\* C12: for /health, /demo, /weather, /ai/advice and /ai/chat the status is
\* the same with the handle set and unset, for the same request and the
\* same upstream outcomes; /health and /ai/advice answer 200; /weather
\* answers 200 when the provider's call succeeded; /ai/chat with a crop_id
\* and no handle makes no gateway call and goes on to the model's call; and
\* none of them changes a collection.
C12_Independent_Of_Gateway ==
    [][ req'.op \in NoPersistenceOps =>
          /\ \A o \in UpstreamOutcomes :
                Answer("none", req', o).response.status
                    = Answer("handle", req', o).response.status
          /\ \E o \in UpstreamOutcomes : resp' = Answer(db, req', o).response
          /\ req'.op \in {"health_check", "get_crop_advice"} => resp'.status = 200
          /\ ( /\ req'.op = "get_weather"
               /\ upcalls' # <<>>
               /\ upcalls'[1].outcome = "ok" ) => resp'.status = 200
          /\ ( /\ req'.op = "chat_with_ai"
               /\ db = "none"
               /\ openai_client = "client"
               /\ {"message", "crop_id"} \subseteq DOMAIN req'.data ) =>
                    /\ resp'.status \in {200, 500}
                    /\ dblog' = <<>>
                    /\ Len(upcalls') = 1
                    /\ resp'.status = 200 <=> upcalls'[1].outcome = "text"
          /\ \A i \in 1..Len(dblog') : dblog'[i].op = "find_one"
          /\ users' = users
          /\ crops' = crops
          /\ activities' = activities
          /\ ai_advice' = ai_advice ]_vars

\* C12 witness: the ping failed while the database holds the crop, and a
\* chat about that crop was answered 200 without a gateway call.
C12_Witness ==
    /\ Degraded
    /\ req.op = "chat_with_ai"
    /\ "crop_id" \in DOMAIN req.data
    /\ req.data["crop_id"] \in StoredIds(crops)
    /\ resp.status = 200
    /\ dblog = <<>>
    /\ Len(upcalls) = 1

\* The request reaches the handler: a chat body passes ChatMessage.
ReachesHandler(r) ==
    r.op = "chat_with_ai" => Validates(r.data, ChatMessageTypes, ChatMessageDefaults)

\* C13 as stated: without a credential each of advise, identify, transcribe
\* and chat makes no call to the hosted model and returns the fixed message
\* as a normal result (HTTP 200).
C13_Unavailable_Is_Normal ==
    [][ (openai_client = "none" /\ req'.op \in AdvisoryOps /\ ReachesHandler(req')) =>
            /\ ModelCalls(upcalls') = <<>>
            /\ resp'.status = 200 ]_vars

\* C13 amended: without a credential none of the four makes a call to the
\* hosted model; advise answers 200 with the fixed message as its advice;
\* identify, chat and transcribe answer HTTP 503.
C13_No_Credential ==
    [][ (openai_client = "none" /\ req'.op \in AdvisoryOps /\ ReachesHandler(req')) =>
            /\ ModelCalls(upcalls') = <<>>
            /\ req'.op = "get_crop_advice" =>
                  /\ resp'.status = 200
                  /\ resp'.body[1].advice = FeatureUnavailable
            /\ req'.op # "get_crop_advice" => resp' = HTTPException(503) ]_vars

\* C13 witness: a valid chat was answered 503 without a credential, and no
\* call was made.
C13_Witness ==
    /\ phase = "serving"
    /\ openai_client = "none"
    /\ req.op = "chat_with_ai"
    /\ ReachesHandler(req)
    /\ resp.status = 503
    /\ upcalls = <<>>

\* C14 as stated: when the last call to the hosted model raised, advise
\* answers 200 with the canned text, and chat, identify and transcribe each
\* answer HTTP 500.
C14_Upstream_Failure ==
    [][ ( /\ req'.op \in AdvisoryOps
          /\ ModelCalls(upcalls') # <<>>
          /\ LastOutcome(ModelCalls(upcalls')) = "raise" ) =>
            IF req'.op = "get_crop_advice"
            THEN resp'.status = 200 /\ resp'.body[1].advice = CannedAdvice
            ELSE resp'.status = 500 ]_vars

\* C15 as stated: for every failure (no key, no connection, a status other
\* than 2xx, a malformed body) the adapter returns None; GET /weather
\* answers 404 exactly then; and advise answers 200 with weather None.
C15_Weather_Soft_Failure ==
    [][ LET failed == \/ ~WEATHERAPI_KEY
                      \/ \E i \in 1..Len(upcalls') :
                            upcalls'[i].api = "weatherapi" /\ upcalls'[i].outcome # "ok"
        IN  /\ \A i \in 1..Len(WeatherCalls(upcalls')) :
                  WeatherCalls(upcalls')[i].outcome # "ok" =>
                      get_weather_data(WeatherCalls(upcalls')[i].outcome) = None
            /\ (req'.op = "get_weather" /\ resp'.status # 422) =>
                  (resp'.status = 404 <=> failed)
            /\ req'.op = "get_crop_advice" =>
                  /\ resp'.status = 200
                  /\ failed => resp'.body[1].weather = None ]_vars

\* C18: the startup event sets the handle exactly when a MONGO_URL is
\* configured and the ping it made succeeded; after it, no step changes the
\* handle, the MONGO_URL or the phase.
C18_Handle_Set_Once ==
    [][ /\ phase = "boot" =>
              /\ phase' = "serving"
              /\ db' = "handle" <=> (mongo_url' /\ dblog' = <<Call("ping", "admin", 1)>>)
        /\ phase = "serving" =>
              /\ phase' = "serving"
              /\ db' = db
              /\ mongo_url' = mongo_url ]_vars

\* C18 witness: a MONGO_URL was configured, the ping failed, and after two
\* requests that would write the handle is still unset.
C18_Witness ==
    /\ Degraded
    /\ mongo_url
    /\ Len(inflight) = 2
    /\ \A t \in 1..Len(inflight) : inflight[t].status = 503

\* crops and crops' differ at most in the last_activity field of records
\* whose id is crop_id.
OnlyLastActivity(before, after, crop_id) ==
    /\ Len(after) = Len(before)
    /\ \A i \in 1..Len(before) :
          \/ after[i] = before[i]
          \/ /\ before[i]["id"] = crop_id
             /\ DOMAIN after[i] = DOMAIN before[i] \cup {"last_activity"}
             /\ \A f \in DOMAIN before[i] \ {"last_activity"} : after[i][f] = before[i][f]

\* C19: a step of create_activity whose insert has not taken effect is the
\* insert and leaves the crops alone; a later step that answers 200 changes
\* nothing but last_activity of the crop with the activity's crop_id; when
\* the handler stops between the two, nothing is undone; and a step that
\* modifies a crop is the update of a create_activity whose insert has
\* already taken effect.
C19_Insert_Then_Update ==
    [][ /\ \A t \in 1..Len(inflight) :
              (inflight[t].op = "create_activity" /\ inflight'[t] # inflight[t]) =>
                  /\ ~inflight[t].inserted =>
                        /\ inflight'[t].inserted
                        /\ activities' = Append(activities, inflight[t].doc)
                        /\ crops' = crops
                  /\ (inflight[t].inserted /\ inflight'[t].status = 200) =>
                        /\ activities' = activities
                        /\ OnlyLastActivity(crops, crops', inflight[t].id)
                  /\ (inflight[t].inserted /\ inflight'[t].status = 500) =>
                        /\ activities' = activities
                        /\ crops' = crops
        /\ (Len(crops') = Len(crops) /\ crops' # crops) =>
              \E t \in 1..Len(inflight) :
                  /\ inflight[t].op = "create_activity"
                  /\ inflight[t].inserted
                  /\ inflight[t].pc # "done"
                  /\ inflight'[t].status = 200
                  /\ OnlyLastActivity(crops, crops', inflight[t].id) ]_vars

\* C19 witness: a create_activity for a stored crop stopped after its
\* insert; the activity is stored and the crop's last_activity is unset.
C19_Witness ==
    \E t \in 1..Len(inflight) :
        /\ inflight[t].op = "create_activity"
        /\ inflight[t].status = 500
        /\ \E i \in 1..Len(activities) : activities[i] = inflight[t].doc
        /\ \E i \in 1..Len(crops) :
              /\ crops[i]["id"] = inflight[t].id
              /\ crops[i]["last_activity"] = None

\* C20 as stated: when delete_crop(c) and a create_activity with crop_id c
\* that overlapped it have both answered, and delete_crop answered 200, no
\* stored activity has crop_id c.
C20_No_Orphan_Activity ==
    \A d, a \in 1..Len(inflight) :
        ( /\ inflight[d].op = "delete_crop"
          /\ inflight[d].status = 200
          /\ inflight[a].op = "create_activity"
          /\ inflight[a].pc = "done"
          /\ inflight[a].id = inflight[d].id
          /\ inflight[IF a < d THEN d ELSE a].overlapped ) =>
            \A i \in 1..Len(activities) : activities[i]["crop_id"] # inflight[d].id

\* C21 as stated: an update_crop that ran while a delete_crop of the same
\* crop was in flight, with a body that leaves the id alone, ends with the
\* updated record (200) or with 404, never with another failure.
C21_Update_Or_NotFound ==
    \A u, d \in 1..Len(inflight) :
        ( /\ inflight[u].op = "update_crop"
          /\ inflight[u].pc = "done"
          /\ "id" \notin DOMAIN inflight[u].doc
          /\ inflight[d].op = "delete_crop"
          /\ inflight[d].id = inflight[u].id
          /\ inflight[IF u < d THEN d ELSE u].overlapped ) =>
            inflight[u].status \in {200, 404}

====
